---- MODULE Spec2Model ----
(***************************************************************************)
(* The MkDocs hook docs/process-api-links.py: the process-wide navigation  *)
(* index (_NAV_MAP, _NAV_FETCH_FAILED), its builder _build_navigation_map  *)
(* and the page rewriter on_page_markdown.                                 *)
(*                                                                         *)
(* Text is a sequence of one-character strings, so that str.split,         *)
(* str.find, str.replace, str.strip, the regular expressions and urljoin   *)
(* are computed character by character as the code computes them.          *)
(***************************************************************************)
EXTENDS Integers, Sequences, FiniteSets, TLC

(***************************************************************************)
(* Bounds of the model.                                                    *)
(***************************************************************************)
\* Longest navigation document built from several entries (divs).
MaxEntries == 2
\* Longest page built from several segments (links and plain text).
MaxSegs == 2
MaxThreads == 2

\* The most entries of a navigation document whose keys are suggested from.
MaxSuggestEntries == 7

\* The most calls of cancel on one request.
MaxCancels == 1

(***************************************************************************)
(* Python string operations, on sequences of characters.                   *)
(***************************************************************************)
Letters ==
    {"a","b","c","d","e","f","g","h","i","j","k","l","m","n","o","p","q","r",
     "s","t","u","v","w","x","y","z","A","B","C","D","E","F","G","H","I","J",
     "K","L","M","N","O","P","Q","R","S","T","U","V","W","X","Y","Z"}

Digits == {"0","1","2","3","4","5","6","7","8","9"}

\* The characters str.strip() removes and \s matches, among those modelled.
Whitespace == {" ", "\n"}

\* s.find(pat, from): the least 1-based index >= from where pat occurs, 0 if none.
RECURSIVE IndexOf(_, _, _)
IndexOf(s, pat, from) ==
    IF from + Len(pat) - 1 > Len(s) THEN 0
    ELSE IF SubSeq(s, from, from + Len(pat) - 1) = pat THEN from
    ELSE IndexOf(s, pat, from + 1)

\* pat in s
Contains(s, pat) == IndexOf(s, pat, 1) # 0

\* s.startswith(pat)
StartsWith(s, pat) == Len(s) >= Len(pat) /\ SubSeq(s, 1, Len(pat)) = pat

\* s.replace(old, new): left to right, non-overlapping occurrences.
RECURSIVE Replace(_, _, _)
Replace(s, old, new) ==
    IF Len(s) < Len(old) THEN s
    ELSE IF SubSeq(s, 1, Len(old)) = old
         THEN new \o Replace(SubSeq(s, Len(old) + 1, Len(s)), old, new)
         ELSE <<s[1]>> \o Replace(Tail(s), old, new)

\* s.split(sep, 1)[0]
SplitFirst(s, sep) ==
    LET i == IndexOf(s, sep, 1)
    IN  IF i = 0 THEN s ELSE SubSeq(s, 1, i - 1)

\* s.split(sep, 1)[1], for s that contains sep
SplitRest(s, sep) ==
    LET i == IndexOf(s, sep, 1)
    IN  SubSeq(s, i + Len(sep), Len(s))

\* s.split(c): every piece between occurrences of the character c.
RECURSIVE SplitAll(_, _)
SplitAll(s, c) ==
    LET i == IndexOf(s, <<c>>, 1)
    IN  IF i = 0 THEN <<s>>
        ELSE <<SubSeq(s, 1, i - 1)>> \o SplitAll(SubSeq(s, i + 1, Len(s)), c)

\* c.join(parts)
RECURSIVE Join(_, _)
Join(parts, c) ==
    IF Len(parts) = 0 THEN <<>>
    ELSE IF Len(parts) = 1 THEN parts[1]
    ELSE parts[1] \o <<c>> \o Join(Tail(parts), c)

\* s.lstrip()
RECURSIVE LStrip(_)
LStrip(s) ==
    IF Len(s) > 0 /\ s[1] \in Whitespace THEN LStrip(Tail(s)) ELSE s

\* s.rstrip()
RECURSIVE RStrip(_)
RStrip(s) ==
    IF Len(s) > 0 /\ s[Len(s)] \in Whitespace
    THEN RStrip(SubSeq(s, 1, Len(s) - 1)) ELSE s

\* s.strip()
Strip(s) == RStrip(LStrip(s))

\* s.rstrip("/")
RECURSIVE RStripSlash(_)
RStripSlash(s) ==
    IF Len(s) > 0 /\ s[Len(s)] = "/"
    THEN RStripSlash(SubSeq(s, 1, Len(s) - 1)) ELSE s

\* A substitution that turns each whitespace character into a hyphen.
SubWhitespace_EachChar(s) ==
    [j \in 1..Len(s) |-> IF s[j] \in Whitespace THEN "-" ELSE s[j]]

\* re.sub(r"\s+", "-", s): each maximal run of whitespace becomes one hyphen.
RECURSIVE SubWhitespace(_)
SubWhitespace(s) ==
    IF Len(s) = 0 THEN <<>>
    ELSE IF s[1] \in Whitespace
         THEN <<"-">> \o SubWhitespace(LStrip(s))
         ELSE <<s[1]>> \o SubWhitespace(Tail(s))

(***************************************************************************)
(* urllib.parse.urljoin, for URLs without query, fragment or parameters    *)
(* (no '?', '#' or ';'), on sequences of characters.                       *)
(***************************************************************************)
SchemeChars == Letters \cup Digits \cup {"+", "-", "."}

HTTP == <<"h","t","t","p">>
HTTPS == <<"h","t","t","p","s">>

\* urllib.parse.uses_relative and uses_netloc, as far as the model's URLs go.
UsesRelative == {<<>>, HTTP, HTTPS}

\* urlsplit(url).scheme: the text before the first ':' when it is a scheme.
SchemeBefore(url, c) ==
    IF c > 1 /\ url[1] \in Letters /\ \A i \in 1..(c - 1) : url[i] \in SchemeChars
    THEN SubSeq(url, 1, c - 1)
    ELSE <<>>

UrlScheme(url) == SchemeBefore(url, IndexOf(url, <<":">>, 1))

\* url without its scheme and the ':' after it.
DropScheme(url, scheme) ==
    IF scheme = <<>> THEN url ELSE SubSeq(url, Len(scheme) + 2, Len(url))

UrlAfterScheme(url) == DropScheme(url, UrlScheme(url))

\* body up to its first '/', at index e (0: none).
UpTo(body, e) == IF e = 0 THEN body ELSE SubSeq(body, 1, e - 1)

\* body from its first '/', at index e (0: none).
From(body, e) == IF e = 0 THEN <<>> ELSE SubSeq(body, e, Len(body))

\* The netloc of the text r that follows the scheme: after a leading '//',
\* up to the next '/'.
NetlocOf(r) ==
    IF ~StartsWith(r, <<"/","/">>) THEN <<>>
    ELSE UpTo(SubSeq(r, 3, Len(r)), IndexOf(SubSeq(r, 3, Len(r)), <<"/">>, 1))

\* The path of the text r that follows the scheme.
PathOf(r) ==
    IF ~StartsWith(r, <<"/","/">>) THEN r
    ELSE From(SubSeq(r, 3, Len(r)), IndexOf(SubSeq(r, 3, Len(r)), <<"/">>, 1))

\* urlsplit(url).netloc
UrlNetloc(url) == NetlocOf(UrlAfterScheme(url))

\* urlsplit(url).path
UrlPath(url) == PathOf(UrlAfterScheme(url))

\* A netloc with one bracket and not the other.
BadBrackets(netloc) == Contains(netloc, <<"[">>) # Contains(netloc, <<"]">>)

\* urlsplit raises ValueError("Invalid IPv6 URL") on such a netloc.
UrlsplitRaises(url) == BadBrackets(UrlNetloc(url))

\* '//' + netloc + path, the path made absolute
WithNetloc(netloc, path) ==
    <<"/","/">> \o netloc \o
    (IF path # <<>> /\ path[1] # "/" THEN <<"/">> \o path ELSE path)

\* urlunsplit((scheme, netloc, path, '', ''))
Urlunsplit(scheme, netloc, path) ==
    (IF scheme # <<>> THEN scheme \o <<":">> ELSE <<>>)
    \o (IF netloc # <<>> \/ (scheme # <<>> /\ ~StartsWith(path, <<"/","/">>))
        THEN WithNetloc(netloc, path)
        ELSE path)

\* segments[1:-1] = filter(None, segments[1:-1])
DropEmptyInner(segments) ==
    IF Len(segments) <= 2 THEN segments
    ELSE <<segments[1]>>
         \o SelectSeq(SubSeq(segments, 2, Len(segments) - 1), LAMBDA g : g # <<>>)
         \o <<segments[Len(segments)]>>

\* The loop of urljoin that removes '.' and '..' segments.
RECURSIVE ResolveDots(_, _)
ResolveDots(segments, resolved) ==
    IF Len(segments) = 0 THEN resolved
    ELSE IF segments[1] = <<".",".">>
         THEN ResolveDots(Tail(segments),
                          IF Len(resolved) = 0 THEN resolved
                          ELSE SubSeq(resolved, 1, Len(resolved) - 1))
    ELSE IF segments[1] = <<".">>
         THEN ResolveDots(Tail(segments), resolved)
    ELSE ResolveDots(Tail(segments), Append(resolved, segments[1]))

\* base_parts: bpath.split('/') without a last part that is not empty.
BaseParts(bsplit) ==
    IF bsplit[Len(bsplit)] # <<>> THEN SubSeq(bsplit, 1, Len(bsplit) - 1) ELSE bsplit

\* if segments[-1] in ('.', '..'): resolved_path.append('')
CloseDots(segments, resolved) ==
    IF segments[Len(segments)] \in {<<".">>, <<".",".">>}
    THEN Append(resolved, <<>>) ELSE resolved

\* '/'.join(resolved_path) or '/'
OrSlash(joined) == IF joined = <<>> THEN <<"/">> ELSE joined

\* The resolved path of the segments.
ResolveSegments(segments) ==
    OrSlash(Join(CloseDots(segments, ResolveDots(segments, <<>>)), "/"))

\* urljoin's path of url resolved against the path of base.
ResolvePath(bpath, path) ==
    IF StartsWith(path, <<"/">>) THEN ResolveSegments(SplitAll(path, "/"))
    ELSE ResolveSegments(
             DropEmptyInner(BaseParts(SplitAll(bpath, "/")) \o SplitAll(path, "/")))

\* urljoin raises what urlsplit(url) raises (base is a well-formed constant).
UrljoinRaises(base, url) == base # <<>> /\ url # <<>> /\ UrlsplitRaises(url)

\* urljoin, from the parts of base and url.
JoinParts(base, url, bscheme, scheme, netloc, path) ==
    IF scheme # bscheme \/ scheme \notin UsesRelative THEN url
    ELSE IF netloc # <<>> THEN Urlunsplit(scheme, netloc, path)
    ELSE IF path = <<>> THEN Urlunsplit(scheme, UrlNetloc(base), UrlPath(base))
    ELSE Urlunsplit(scheme, UrlNetloc(base), ResolvePath(UrlPath(base), path))

\* urlparse(url, bscheme).scheme
SchemeOr(scheme, bscheme) == IF scheme = <<>> THEN bscheme ELSE scheme

\* urljoin(base, url), when it does not raise.
Urljoin(base, url) ==
    IF base = <<>> THEN url
    ELSE IF url = <<>> THEN base
    ELSE JoinParts(base, url, UrlScheme(base), SchemeOr(UrlScheme(url), UrlScheme(base)),
                   UrlNetloc(url), UrlPath(url))

\* NAV_URL = "https://api.koog.ai/navigation.html"
NAV_URL ==
    <<"h","t","t","p","s",":","/","/","a","p","i",".","k","o","o","g",".","a","i",
      "/","n","a","v","i","g","a","t","i","o","n",".","h","t","m","l">>

\* BASE_URL = "https://api.koog.ai/"
BASE_URL ==
    <<"h","t","t","p","s",":","/","/","a","p","i",".","k","o","o","g",".","a","i","/">>

(***************************************************************************)
(* Values.  _NAV_MAP is None or a dict; a dict is the sequence of its      *)
(* items in insertion order, as a Python dict keeps them.                  *)
(***************************************************************************)
None == [isNone |-> TRUE, items |-> <<>>]

Dict(items) == [isNone |-> FALSE, items |-> items]

\* k in d
DictHas(items, k) == \E i \in 1..Len(items) : items[i].k = k

\* d.get(k), for k in d
DictGet(items, k) == items[CHOOSE i \in 1..Len(items) : items[i].k = k].v

\* list(d.keys())
DictKeys(items) == {items[i].k : i \in 1..Len(items)}

\* An insertion that replaces the value an earlier entry left under k.
SetDefault_Overwrite(items, k, v) ==
    IF DictHas(items, k)
    THEN [i \in 1..Len(items) |-> IF items[i].k = k THEN [k |-> k, v |-> v] ELSE items[i]]
    ELSE Append(items, [k |-> k, v |-> v])

\* if k not in result: result[k] = v
SetDefault(items, k, v) ==
    IF DictHas(items, k) THEN items ELSE Append(items, [k |-> k, v |-> v])

\* A line written to standard output.
Line(kind, key, page, n) == [kind |-> kind, key |-> key, page |-> page, n |-> n]

(***************************************************************************)
(* _build_navigation_map: the key variants of one navigation entry.        *)
(* A div carrying a pageid attribute is a record                           *)
(*   [pageid, toc_row, a, has_href, href]:                                 *)
(* its identifier, whether it holds a div of class toc--row, whether that  *)
(* row holds an <a>, and the <a>'s href attribute (has_href FALSE: None).  *)
(***************************************************************************)
\* key = pageid.split("///", 1)[0]
BaseKey(pageid) == SplitFirst(pageid, <<"/","/","/">>)

\* An href stored as it is written in the document.
NormalizedHref_Raw(href) == href

\* try: urljoin(NAV_URL, href)  except Exception: href
NormalizedHref(href) ==
    IF UrljoinRaises(NAV_URL, href) THEN href ELSE Urljoin(NAV_URL, href)

\* A dotted variant that keeps the slashes of the key.
DottedKey_Same(key) == key

\* dotted_key = key.replace("/", ".")
DottedKey(key) == Replace(key, <<"/">>, <<".">>)

\* A token that keeps the nesting below the first segment.
TokenAfter_Whole(after, next_sep) == after

\* token_after: after up to its first '/', at index next_sep (0: none).
TokenAfter(after, next_sep) ==
    IF next_sep = 0 THEN after ELSE SubSeq(after, 1, next_sep - 1)

\* f"{before}//{token_after}" if token_after else before.rstrip("/")
TrimmedOf(before, token_after) ==
    IF token_after # <<>> THEN before \o <<"/","/">> \o token_after
    ELSE RStripSlash(before)

\* before = key[:idx]; after = key[idx + 2:], for idx = key.find("//")
TrimmedAt(key, idx) ==
    TrimmedOf(SubSeq(key, 1, idx - 1),
              TokenAfter(SubSeq(key, idx + 2, Len(key)),
                         IndexOf(SubSeq(key, idx + 2, Len(key)), <<"/">>, 1)))

\* trimmed: the text before the first '//' of key, '//' and the first token
\* after it; without a token, the text before it.
Trimmed(key) == TrimmedAt(key, IndexOf(key, <<"/","/">>, 1))

\* dotted_trimmed = trimmed.replace("//", ".").replace("/", ".")
DottedTrimmed(trimmed) ==
    Replace(Replace(trimmed, <<"/","/">>, <<".">>), <<"/">>, <<".">>)

\* The two insertions of the '//' branch, for the trimmed key.
AddTrimmedKeys(result, trimmed, normalized_href) ==
    IF trimmed = <<>> THEN result
    ELSE SetDefault(SetDefault(result, trimmed, normalized_href),
                    DottedTrimmed(trimmed), normalized_href)

\* The '//' branch.
AddTrimmed(result, key, normalized_href) ==
    IF ~Contains(key, <<"/","/">>) THEN result
    ELSE AddTrimmedKeys(result, Trimmed(key), normalized_href)

\* A '///' branch that stores the dotted variant over an earlier value.
AddDotted_Overwrite(result, pageid, key, normalized_href) ==
    IF Contains(pageid, <<"/","/","/">>)
    THEN SetDefault_Overwrite(result, DottedKey(key), normalized_href)
    ELSE result

\* The '///' branch.
AddDotted(result, pageid, key, normalized_href) ==
    IF Contains(pageid, <<"/","/","/">>)
    THEN SetDefault(result, DottedKey(key), normalized_href)
    ELSE result

\* The insertions of one entry: base key, dotted variant, trimmed variants.
AddVariants(result, pageid, key, normalized_href) ==
    AddTrimmed(AddDotted(SetDefault(result, key, normalized_href),
                         pageid, key, normalized_href),
               key, normalized_href)

\* One iteration of the loop over the divs.
AddEntry(result, div) ==
    IF div.pageid = <<>> THEN result
    ELSE IF ~div.toc_row THEN result
    ELSE IF ~div.a THEN result
    ELSE IF ~div.has_href \/ div.href = <<>> THEN result
    ELSE AddVariants(result, div.pageid, BaseKey(div.pageid), NormalizedHref(div.href))

\* The loop over the first n divs of the document, from an empty result.
RECURSIVE ParseDivs(_, _)
ParseDivs(divs, n) ==
    IF n = 0 THEN <<>> ELSE AddEntry(ParseDivs(divs, n - 1), divs[n])

(***************************************************************************)
(* _build_navigation_map.  G is the process state the function reads and   *)
(* writes: the globals _NAV_MAP and _NAV_FETCH_FAILED, the number of       *)
(* urlopen calls issued so far with the answer to the last one, and the    *)
(* lines printed so far by the running call.  resp is what the network and *)
(* the parser answer if the call fetches:                                  *)
(*   [urlopen_raises, status, charset_known, divs, parse_raise]            *)
(* urlopen raising (transport error, timeout, HTTPError), the status of a  *)
(* response it returns, whether the declared charset is a known codec      *)
(* (decode raises LookupError otherwise), the divs with a pageid that the  *)
(* parser finds, and parse_raise = n > 0 when parsing raises after n - 1   *)
(* divs have been processed (0: it does not raise).                        *)
(***************************************************************************)
\* A builder that never finds a cached index.
HasCachedMap_Never(G) == FALSE

\* if _NAV_MAP is not None
HasCachedMap(G) == ~G.NAV_MAP.isNone

\* A builder that never finds the failure sentinel set.
HasCachedFailure_Never(G) == FALSE

\* if _NAV_FETCH_FAILED
HasCachedFailure(G) == G.NAV_FETCH_FAILED

\* if not (200 <= resp.status < 300)
StatusOk(status) == 200 <= status /\ status < 300

\* _NAV_FETCH_FAILED = True; print(warning); return None
FetchFailed(G, kind) ==
    [g |-> [G EXCEPT !.NAV_FETCH_FAILED = TRUE,
                     !.stdout = Append(@, Line(kind, <<>>, "", 0))],
     value |-> None]

\* A handler of the parsing block that caches what the loop had built.
ParseFailed_CachesPartial(G, result) ==
    [g |-> [G EXCEPT !.NAV_MAP = Dict(result), !.NAV_FETCH_FAILED = TRUE,
                     !.stdout = Append(@, Line("warn_parse", <<>>, "", 0))],
     value |-> None]

\* except Exception as e: the handler of the parsing block; result is the
\* local dict as far as the loop had filled it when the exception was raised.
ParseFailed(G, result) ==
    [g |-> [G EXCEPT !.NAV_FETCH_FAILED = TRUE,
                     !.stdout = Append(@, Line("warn_parse", <<>>, "", 0))],
     value |-> None]

\* _NAV_MAP = result; print(info); return _NAV_MAP
ParseSucceeded(G, result) ==
    [g |-> [G EXCEPT !.NAV_MAP = Dict(result),
                     !.stdout = Append(@, Line("info_loaded", <<>>, "", Len(result)))],
     value |-> Dict(result)]

\* The body of _build_navigation_map after urlopen was called.
Fetched(F, resp) ==
    IF resp.urlopen_raises THEN FetchFailed(F, "warn_fetch")
    ELSE IF ~StatusOk(resp.status) THEN FetchFailed(F, "warn_status")
    ELSE IF ~resp.charset_known THEN FetchFailed(F, "warn_fetch")
    ELSE IF resp.parse_raise > 0
         THEN ParseFailed(F, ParseDivs(resp.divs, resp.parse_raise - 1))
         ELSE ParseSucceeded(F, ParseDivs(resp.divs, Len(resp.divs)))

\* The body of _build_navigation_map once neither cache answers.
FetchAndParse(G, bs4, resp) ==
    IF ~bs4 THEN FetchFailed(G, "warn_no_bs4")
    ELSE Fetched([G EXCEPT !.fetches = @ + 1, !.answer = resp], resp)

BuildNavigationMap(G, bs4, resp) ==
    IF HasCachedMap(G) THEN [g |-> G, value |-> G.NAV_MAP]
    ELSE IF HasCachedFailure(G) THEN [g |-> G, value |-> None]
    ELSE FetchAndParse(G, bs4, resp)

\* Whether a call of _build_navigation_map in G reaches urlopen.
WouldFetch(G, bs4) == ~HasCachedMap(G) /\ ~HasCachedFailure(G) /\ bs4

(***************************************************************************)
(* on_page_markdown.                                                       *)
(***************************************************************************)
API == <<"a","p","i",":">>

NoMatch == [ok |-> FALSE, link_text |-> <<>>, target |-> <<>>, end |-> 0]

\* The match from i, with the ']' at r, when the target ends at the ')' at e.
MatchTarget(text, i, r, e) ==
    IF e = 0 \/ e = r + 6 THEN NoMatch
    ELSE [ok |-> TRUE,
          link_text |-> SubSeq(text, i + 1, r - 1),
          target |-> SubSeq(text, r + 2, e - 1),
          end |-> e]

\* A pattern that allows one character between the ']' and the '(api:'.
MatchText_SkipsOne(text, i, r) ==
    IF r = 0 \/ r = i + 1 \/ r + 6 > Len(text) THEN NoMatch
    ELSE IF SubSeq(text, r + 2, r + 6) # <<"(">> \o API THEN NoMatch
    ELSE IF IndexOf(text, <<")">>, r + 7) \in {0, r + 7} THEN NoMatch
    ELSE [ok |-> TRUE,
          link_text |-> SubSeq(text, i + 1, r - 1),
          target |-> SubSeq(text, r + 3, IndexOf(text, <<")">>, r + 7) - 1),
          end |-> IndexOf(text, <<")">>, r + 7)]

\* The match from i when the bracketed text ends at the ']' at r.
MatchText(text, i, r) ==
    IF r = 0 \/ r = i + 1 \/ r + 5 > Len(text) THEN NoMatch
    ELSE IF SubSeq(text, r + 1, r + 5) # <<"(">> \o API THEN NoMatch
    ELSE MatchTarget(text, i, r, IndexOf(text, <<")">>, r + 6))

\* pattern = \[([^\]]+)\]\((api:[^\)]+)\) tried at position i of text: the
\* bracketed text runs to the first ']', the target to the first ')'.
MatchAt(text, i) ==
    IF text[i] # "[" THEN NoMatch
    ELSE MatchText(text, i, IndexOf(text, <<"]">>, i + 1))

(***************************************************************************)
(* _suggest_keys: difflib.get_close_matches(k, candidates, n=5,            *)
(* cutoff=0.6).  A candidate x is close when SequenceMatcher(a=x, b=k)     *)
(* has ratio() = 2 * M / (len(x) + len(k)) >= cutoff, M the total size of  *)
(* the matching blocks; the close candidates are returned best first, by   *)
(* (ratio, x) descending.  The keys are far shorter than the 200           *)
(* characters from which SequenceMatcher treats popular characters as      *)
(* junk.                                                                   *)
(***************************************************************************)
\* limit=5
Limit == 5

\* cutoff=0.6, as the fraction CutoffNum / CutoffDen
CutoffNum == 3

CutoffDen == 5

\* The characters of the model by ascending code point: str comparison.
CodeOrder ==
    <<"\n"," ","(",")","+","-",".","/","0","1","2","3","4","5","6","7","8","9",
      ":","A","B","C","D","E","F","G","H","I","J","K","L","M","N","O","P","Q",
      "R","S","T","U","V","W","X","Y","Z","[","]","a","b","c","d","e","f","g",
      "h","i","j","k","l","m","n","o","p","q","r","s","t","u","v","w","x","y",
      "z">>

Ord(c) == CHOOSE i \in 1..Len(CodeOrder) : CodeOrder[i] = c

\* x > y for the strings x and y, from position i on.
RECURSIVE StrGreater(_, _, _)
StrGreater(x, y, i) ==
    IF i > Len(x) THEN FALSE
    ELSE IF i > Len(y) THEN TRUE
    ELSE IF x[i] = y[i] THEN StrGreater(x, y, i + 1)
    ELSE Ord(x[i]) > Ord(y[i])

\* The length of the run on which a from i and b from j agree.
RunEnds(a, b, i, j, k) ==
    \/ i + k > Len(a)
    \/ j + k > Len(b)
    \/ a[i + k] # b[j + k]

RunLen(a, b, i, j) ==
    CHOOSE k \in 0..Len(a) :
        /\ RunEnds(a, b, i, j, k)
        /\ \A t \in 0..(k - 1) : ~RunEnds(a, b, i, j, t)

\* The blocks a[i:i+k] == b[j:j+k] of every pair of starts (i, j).
Blocks(a, b) ==
    {[i |-> i, j |-> j, k |-> RunLen(a, b, i, j)] : i \in 1..Len(a), j \in 1..Len(b)}

\* p is longer than q, or as long and earlier in a, or also earlier in b.
BlockBefore(p, q) ==
    \/ p.k > q.k
    \/ p.k = q.k /\ p.i < q.i
    \/ p.k = q.k /\ p.i = q.i /\ p.j < q.j

\* find_longest_match: of the longest blocks the one that starts earliest
\* in a, then earliest in b.
FirstLongest(blocks) ==
    CHOOSE p \in blocks : \A q \in blocks \ {p} : BlockBefore(p, q)

FindLongestMatch(a, b) == FirstLongest(Blocks(a, b))

\* get_matching_blocks: the longest block, then the same to its left and
\* to its right; Matches is the total size of the blocks.
RECURSIVE Matches(_, _)

MatchesAround(a, b, m) ==
    IF m.k = 0 THEN 0
    ELSE m.k + Matches(SubSeq(a, 1, m.i - 1), SubSeq(b, 1, m.j - 1))
             + Matches(SubSeq(a, m.i + m.k, Len(a)), SubSeq(b, m.j + m.k, Len(b)))

Matches(a, b) ==
    IF a = <<>> \/ b = <<>> THEN 0 ELSE MatchesAround(a, b, FindLongestMatch(a, b))

\* (s.ratio(), x) for the candidate x of the word k, the ratio as the
\* fraction num / den.
Scored(x, k) == [x |-> x, num |-> 2 * Matches(x, k), den |-> Len(x) + Len(k)]

\* s.ratio() >= cutoff
IsClose(sc) == sc.num * CutoffDen >= CutoffNum * sc.den

\* (ratio, x) of p above (ratio, x) of q
ScoredAbove(p, q) ==
    \/ p.num * q.den > q.num * p.den
    \/ p.num * q.den = q.num * p.den /\ StrGreater(p.x, q.x, 1)

\* heapq.nlargest(n, result): the n best of the scored candidates, best first.
RECURSIVE NLargest(_, _)

BestFirst(n, result, best) == <<best.x>> \o NLargest(n - 1, result \ {best})

NLargest(n, result) ==
    IF n = 0 \/ result = {} THEN <<>>
    ELSE BestFirst(n, result,
                   CHOOSE p \in result : \A q \in result \ {p} : ScoredAbove(p, q))

\* difflib.get_close_matches(word, possibilities, n, cutoff)
GetCloseMatches(word, possibilities, n) ==
    NLargest(n, {sc \in {Scored(possibilities[i], word) : i \in 1..Len(possibilities)} :
                    IsClose(sc)})

\* k.split("::", 1)[0] if "::" in k else ""
ExtractProjectPrefix(k) ==
    IF Contains(k, <<":",":">>) THEN SplitFirst(k, <<":",":">>) ELSE <<>>

\* A comprehension that drops the test of the prefix: every key is a candidate.
PrefixCandidates_All(keys, prefix) == keys

\* [key for key in nav_map.keys() if prefix and key.startswith(prefix + "::")]
PrefixCandidates(keys, prefix) ==
    SelectSeq(keys, LAMBDA key : prefix # <<>> /\ StartsWith(key, prefix \o <<":",":">>))

\* if not candidates: candidates = list(nav_map.keys())
CandidatesOr(candidates, keys) == IF candidates = <<>> THEN keys ELSE candidates

Candidates(keys, prefix) == CandidatesOr(PrefixCandidates(keys, prefix), keys)

\* list(nav_map.keys()), in insertion order
KeyList(items) == [i \in 1..Len(items) |-> items[i].k]

\* _suggest_keys(nav_map, k, limit=5)
SuggestKeys(items, k) ==
    GetCloseMatches(k, Candidates(KeyList(items), ExtractProjectPrefix(k)), Limit)

\* print("  Did you mean one of:"); for s in suggestions: print(f"    - {s}")
SuggestionLines(suggestions) ==
    IF suggestions = <<>> THEN <<>>
    ELSE <<Line("suggest_header", <<>>, "", 0)>>
         \o [j \in 1..Len(suggestions) |-> Line("suggestion", suggestions[j], "", 0)]

\* getattr(getattr(page, 'file', None), 'src_path', '<unknown>')
PagePath(page) == IF page.has_file THEN page.src_path ELSE "<unknown>"

\* dotted_variant = key.replace('//', '.').replace('/', '.')
DottedVariant(key) == Replace(Replace(key, <<"/","/">>, <<".">>), <<"/">>, <<".">>)

\* slash_variant = f"{prefix}::{rest.replace('.', '/')}"
SlashVariant(key) ==
    SplitFirst(key, <<":",":">>) \o <<":",":">>
    \o Replace(SplitRest(key, <<":",":">>), <<".">>, <<"/">>)

FirstHint(key, dotted_variant) ==
    IF dotted_variant # key THEN <<dotted_variant>> ELSE <<>>

SecondHint(key, slash_variant) ==
    IF Replace(key, <<".">>, <<"/">>) # key /\ Contains(key, <<":",":">>)
       /\ slash_variant # key
    THEN <<slash_variant>> ELSE <<>>

\* dict.fromkeys(variant_hints)
DedupHints(h1, h2) == IF h1 = h2 THEN h1 ELSE h1 \o h2

\* variant_hints of a miss, de-duplicated in order.
VariantHints(key) ==
    DedupHints(FirstHint(key, DottedVariant(key)), SecondHint(key, SlashVariant(key)))

HintLines(hints) ==
    IF hints = <<>> THEN <<>>
    ELSE <<Line("hint_header", <<>>, "", 0)>>
         \o [j \in 1..Len(hints) |-> Line("hint", hints[j], "", 0)]

\* The lines printed on a miss: the warning and the variant hints (the
\* "Did you mean" lines of _suggest_keys are not among the lines recorded).
MissLines(key, page) ==
    <<Line("warn_unresolved", key, PagePath(page), 0)>> \o HintLines(VariantHints(key))

\* A display text that is the link text as written.
DisplayText_Raw(link_text) == link_text

\* display_text = re.sub(r"\s+", "-", link_text.strip())
DisplayText(link_text) == SubWhitespace(Strip(link_text))

\* A key that is the text after the prefix as it is written.
LookupKey_Exact(target) == SubSeq(target, Len(API) + 1, Len(target))

\* key = target[len("api:"):].strip()
LookupKey(target) == Strip(SubSeq(target, Len(API) + 1, Len(target)))

\* f"[{display_text}]({resolved_href})"
Link(display_text, resolved_href) ==
    <<"[">> \o display_text \o <<"]","(">> \o resolved_href \o <<")">>

\* return match.group(0)
Unchanged(G, whole) == [g |-> G, text |-> whole, raised |-> FALSE]

\* The hit branch of repl: raises when urljoin(BASE_URL, href) raises.
Hit(G, link_text, href) ==
    IF UrljoinRaises(BASE_URL, href)
    THEN [g |-> G, text |-> <<>>, raised |-> TRUE]
    ELSE [g |-> G, text |-> Link(DisplayText(link_text), Urljoin(BASE_URL, href)),
          raised |-> FALSE]

\* The miss branch of repl: the diagnostics, and match.group(0).
Miss(G, whole, key, page) ==
    [g |-> [G EXCEPT !.stdout = @ \o MissLines(key, page)],
     text |-> whole, raised |-> FALSE]

\* repl from "if not nav_map" on: b is what _build_navigation_map() did.
Lookup(b, key, m, whole, page) ==
    IF b.value.isNone \/ b.value.items = <<>> THEN Unchanged(b.g, whole)
    ELSE IF ~DictHas(b.value.items, key) \/ DictGet(b.value.items, key) = <<>>
    THEN Miss(b.g, whole, key, page)
    ELSE Hit(b.g, m.link_text, DictGet(b.value.items, key))

\* repl(match), for the match m of the text whole.
Repl(G, m, whole, page, bs4, resp) ==
    IF ~StartsWith(m.target, API) THEN Unchanged(G, whole)
    ELSE IF LookupKey(m.target) = <<>> THEN Unchanged(G, whole)
    ELSE Lookup(BuildNavigationMap(G, bs4, resp), LookupKey(m.target), m, whole, page)

\* pattern.sub(repl, markdown) from position i on: acc holds the process
\* state, the output so far and whether repl has raised.
RECURSIVE PatternSub(_, _, _, _, _, _)

\* After repl returned r for the match m.
Replaced(text, m, acc, r, page, bs4, resp) ==
    PatternSub(text, m.end + 1,
               [g |-> r.g,
                text |-> IF r.raised THEN <<>> ELSE acc.text \o r.text,
                raised |-> r.raised],
               page, bs4, resp)

\* One position of the scan: m is the match tried at i.
Scan(text, i, acc, m, page, bs4, resp) ==
    IF ~m.ok
    THEN PatternSub(text, i + 1, [acc EXCEPT !.text = Append(@, text[i])],
                    page, bs4, resp)
    ELSE Replaced(text, m, acc,
                  Repl(acc.g, m, SubSeq(text, i, m.end), page, bs4, resp),
                  page, bs4, resp)

PatternSub(text, i, acc, page, bs4, resp) ==
    IF i > Len(text) \/ acc.raised THEN acc
    ELSE Scan(text, i, acc, MatchAt(text, i), page, bs4, resp)

\* on_page_markdown(markdown, page, config, files)
OnPageMarkdown(G, markdown, page, bs4, resp) ==
    PatternSub(markdown, 1, [g |-> G, text |-> <<>>, raised |-> FALSE],
               page, bs4, resp)

(***************************************************************************)
(* The inputs the model draws from: navigation documents, what the network *)
(* answers, pages and page objects.                                        *)
(***************************************************************************)
Div(pageid, href) ==
    [pageid |-> pageid, toc_row |-> TRUE, a |-> TRUE, has_href |-> TRUE, href |-> href]

\* Identifiers, hyperlink targets and keys, as texts.
S_proj == <<"p","r","o","j">>
S_proj_mod_Cls == <<"p","r","o","j","/","/","/","m","o","d","/","C","l","s">>
S_mod_Cls_index == <<"m","o","d","/","C","l","s","/","i","n","d","e","x",".","h","t","m","l">>
S_proj_dot_mod_dot_Cls == <<"p","r","o","j",".","m","o","d",".","C","l","s">>
S_pkg_member_extra == <<"p","k","g","/","/","m","e","m","b","e","r","/","e","x","t","r","a">>
S_pkg_member == <<"p","k","g","/","/","m","e","m","b","e","r">>
S_pkg_dot_member == <<"p","k","g",".","m","e","m","b","e","r">>
S_pkg_slashes == <<"p","k","g","/","/">>
S_a_b_x == <<"a","/","b","/","/","/","x">>
S_a_b_c_d_e == <<"a","/","b","/","/","c","/","d","/","/","/","e">>
S_bad_href == <<"/","/","[">>
S_api_proj == <<"a","p","i",":","p","r","o","j">>
S_Cls == <<"C","l","s">>

\* The entry of the end-to-end example, an entry of the same base key whose
\* target urljoin rejects, and an entry whose target is itself an api: link
\* to that key.
E_proj_mod_Cls == Div(S_proj_mod_Cls, S_mod_Cls_index)
E_proj_bad == Div(S_proj, S_bad_href)
E_q == Div(<<"q">>, S_api_proj)
E_a_b_x == Div(S_a_b_x, <<"/","a","b">>)
E_a_dot_b == Div(<<"a",".","b">>, <<"x">>)

CoreEntries == {E_proj_mod_Cls, E_proj_bad, E_q}

Entries ==
    CoreEntries \cup
    { E_a_b_x,
      Div(S_pkg_member_extra, <<".",".","/","m">>),
      Div(S_pkg_slashes, <<"m">>),
      Div(S_a_b_c_d_e, <<"c">>),
      Div(<<" ","w">>, <<"w">>),
      Div(<<"f",")">>, <<"f">>),
      Div(<<>>, <<"e">>),
      [Div(<<"k">>, <<"k">>) EXCEPT !.toc_row = FALSE, !.a = FALSE],
      [Div(<<"k">>, <<"k">>) EXCEPT !.a = FALSE],
      [Div(<<"k">>, <<>>) EXCEPT !.has_href = FALSE] }

\* The sequences over S of a length from lo to hi.
SeqsOf(S, lo, hi) == UNION {[1..n -> S] : n \in lo..hi}

\* The sequences of SeqsOf(S, lo, hi) that repeat no element.
OrdersOf(S, lo, hi) ==
    {d \in SeqsOf(S, lo, hi) : \A i, j \in 1..Len(d) : d[i] = d[j] => i = j}

\* Navigation documents: the empty one, every single entry, the core
\* entries in every order up to MaxEntries, and an entry whose dotted key is
\* the key of another entry, before it and after it.
NavDocs ==
    SeqsOf(Entries, 0, 1) \cup OrdersOf(CoreEntries, 2, MaxEntries)
    \cup {<<E_a_dot_b, E_a_b_x>>, <<E_a_b_x, E_a_dot_b>>}

Response(urlopen_raises, status, charset_known, divs, parse_raise) ==
    [urlopen_raises |-> urlopen_raises, status |-> status,
     charset_known |-> charset_known, divs |-> divs, parse_raise |-> parse_raise]

\* No answer: the call does not reach urlopen.
NoResponse == Response(TRUE, 0, FALSE, <<>>, 0)

\* The answers: urlopen raises; it returns a status other than 200; the
\* charset is unknown; every document parsed to its end; and, for the
\* documents of the core entries, parsing raising at each of their divs.
Responses ==
    { Response(TRUE, 0, TRUE, <<>>, 0) }
    \cup { Response(FALSE, st, TRUE, <<E_proj_mod_Cls>>, 0) : st \in {199, 299, 300, 404} }
    \cup { Response(FALSE, 200, FALSE, <<E_proj_mod_Cls>>, 0) }
    \cup { Response(FALSE, 200, TRUE, d, 0) : d \in NavDocs }
    \cup UNION { { Response(FALSE, 200, TRUE, d, n) : n \in 1..Len(d) } :
                   d \in OrdersOf(CoreEntries, 2, MaxEntries) }

\* A page is a sequence of segments: a link [text](api:rest) or plain text.
Api(text, rest) == [kind |-> "api", text |-> text, rest |-> rest]
Plain(text) == [kind |-> "plain", text |-> text, rest |-> <<>>]

Render(seg) ==
    IF seg.kind = "api"
    THEN <<"[">> \o seg.text \o <<"]","(">> \o API \o seg.rest \o <<")">>
    ELSE seg.text

RECURSIVE RenderAll(_)
RenderAll(segs) ==
    IF Len(segs) = 0 THEN <<>> ELSE Render(segs[1]) \o RenderAll(Tail(segs))

LinkTexts == { S_Cls, <<"a"," ","\n","b">>, <<" ","c"," ">>, <<" ">> }

RawKeys ==
    { S_proj_dot_mod_dot_Cls, S_proj, S_pkg_dot_member,
      <<" ","a","/","b"," ">>, <<"z","z">>, <<" ">>, <<"q">>, <<" ","w">>,
      <<"f",")">>, <<"p",":",":","a",".","b">> }

S_ordinary ==
    <<"[","T","]","(","h","t","t","p","s",":","/","/","e","x","a","m","p","l","e",
      ".","c","o","m",")">>

PlainTexts ==
    { S_ordinary,
      <<"[","T","]","(","a","p","i",":",")">>,
      <<"[","]","(","a","p","i",":","k",")">>,
      <<"[","T","]","(","a","p","i",":","p","r","o","j">>,
      <<"[","C","l","s","]","(","h","t","t","p","s",":","/","/","a","p","i",".",
        "k","o","o","g",".","a","i","/","m","o","d","/","C","l","s","/","i","n",
        "d","e","x",".","h","t","m","l",")">>,
      <<"[","a","]"," ","(","a","p","i",":","q",")"," ","x">> }

Segments ==
    { Api(S_Cls, k) : k \in RawKeys }
    \cup { Api(t, S_proj) : t \in LinkTexts }
    \cup { Plain(t) : t \in PlainTexts }

MultiSegments == { Api(S_Cls, S_proj), Api(S_Cls, <<"z","z">>), Plain(S_ordinary) }

\* Pages: every single segment, and the segments of MultiSegments in every
\* order up to MaxSegs.
Pages == SeqsOf(Segments, 1, 1) \cup SeqsOf(MultiSegments, 2, MaxSegs)

\* The page objects of the build pipeline: with a file, and without one.
DocsPage == [has_file |-> TRUE, src_path |-> "docs/a.md"]
NoPage == [has_file |-> FALSE, src_path |-> ""]

\* The calls of on_page_markdown: every page under docs/a.md, and the pages
\* of one link under a page object without a file.
PageCalls ==
    { [segs |-> p, page |-> DocsPage] : p \in Pages }
    \cup { [segs |-> <<Api(S_Cls, k)>>, page |-> NoPage] : k \in {S_proj, <<"z","z">>} }

(***************************************************************************)
(* agent_executor.py: the events of the scenarios.  An event is a record   *)
(*   [type, state, text, n, final]:                                        *)
(* its class, the TaskState of its status ("" for a Message), the text of  *)
(* its message with the number formatted into it, and its final attribute  *)
(* (FALSE for a Task or a Message, which have none).                       *)
(***************************************************************************)
Event(type, state, text, n, final) ==
    [type |-> type, state |-> state, text |-> text, n |-> n, final |-> final]

\* new_agent_text_message(text)
NewAgentTextMessage(text) == Event("Message", "", text, 0, FALSE)

\* new_task(message): a Task in the state submitted
NewTask == Event("Task", "submitted", "", 0, FALSE)

\* TaskStatusUpdateEvent(status=TaskStatus(state, message), final)
StatusUpdate(state, text, n, final) == Event("TaskStatusUpdateEvent", state, text, n, final)

\* A list of events whose final event is not the last one.
DoTaskEvents_FinalFirst ==
    << NewTask,
       StatusUpdate("completed", "Task completed", 0, TRUE),
       StatusUpdate("working", "Working on task", 0, FALSE) >>

\* events = [task, TaskStatusUpdateEvent(...), TaskStatusUpdateEvent(...)]
DoTaskEvents ==
    << NewTask,
       StatusUpdate("working", "Working on task", 0, FALSE),
       StatusUpdate("completed", "Task completed", 0, TRUE) >>

\* Task(id=message.task_id, status=TaskStatus(state=TaskState.working, ...))
WorkingTask == Event("Task", "working", "", 0, FALSE)

\* for i in range(4)
Updates == 4

\* The event of iteration i of the loop of do_long_running_task.
StillWorking(i) == StatusUpdate("working", "Still working", i, FALSE)

\* The event of cancel.
Canceled == StatusUpdate("canceled", "Task canceled", 0, TRUE)

T_hello_world == <<"h","e","l","l","o"," ","w","o","r","l","d">>
T_do_task == <<"d","o"," ","t","a","s","k">>
T_do_cancelable_task == <<"d","o"," ","c","a","n","c","e","l","a","b","l","e"," ","t","a","s","k">>
T_do_long_running_task == <<"d","o"," ","l","o","n","g","-","r","u","n","n","i","n","g"," ","t","a","s","k">>

\* The branch of execute that runs for the user input.
Scenario(input) ==
    IF Contains(input, T_hello_world) THEN "say_hello"
    ELSE IF Contains(input, T_do_task) THEN "do_task"
    ELSE IF Contains(input, T_do_cancelable_task) THEN "do_cancelable_task"
    ELSE IF Contains(input, T_do_long_running_task) THEN "do_long_running_task"
    ELSE "unknown"

\* User inputs: the four phrases, an input with two of them, a phrase
\* inside a sentence, and inputs with none.
UserInputs ==
    { T_hello_world, T_do_task, T_do_cancelable_task, T_do_long_running_task,
      T_do_task \o <<",", " ">> \o T_hello_world,
      T_do_long_running_task \o <<",", " ">> \o T_do_task,
      <<"p","l","s"," ">> \o T_do_long_running_task \o <<"!">>,
      <<"d","o"," ","t","a","s","k","s">>,
      <<"D","o"," ","T","a","s","k">>,
      <<>> }

\* An event on the queue of a request: the event, and the call, execute or
\* cancel, that enqueued it.
Enqueued(by, event) == [by |-> by, event |-> event]

\* No request was made yet.
NoRequest ==
    [input |-> <<>>, pc |-> "idle", i |-> 0, queue |-> <<>>, cancels |-> 0,
     before |-> [input |-> <<>>, queue |-> <<>>]]

(***************************************************************************)
(* The process: the globals of the module, and the calls the build         *)
(* pipeline makes one after another.                                       *)
(***************************************************************************)
VARIABLES
    BeautifulSoup,      \* whether bs4 was imported (FALSE: BeautifulSoup is None)
    NAV_MAP,            \* _NAV_MAP
    NAV_FETCH_FAILED,   \* _NAV_FETCH_FAILED
    fetches,            \* the number of urlopen calls issued by the process
    answer,             \* what the last urlopen call of the process was answered
    threads,            \* the calls in progress when the process runs threads
    ret,                \* the last call: its arguments, what it returned and printed
    agent               \* the request the agent executor serves, and the one before

vars == <<BeautifulSoup, NAV_MAP, NAV_FETCH_FAILED, fetches, answer, threads, ret, agent>>

Globals ==
    [NAV_MAP |-> NAV_MAP, NAV_FETCH_FAILED |-> NAV_FETCH_FAILED,
     fetches |-> fetches, answer |-> answer, stdout |-> <<>>]

\* A thread: where it is in _build_navigation_map (pc), the call it runs
\* (op: "get_index", or "rewrite" for repl on the link [Cls](api:proj)), the
\* answer its urlopen call gets, and what its call returned.
Threads == 1..MaxThreads

Idle ==
    [pc |-> "idle", op |-> "", resp |-> NoResponse, value |-> None,
     text |-> <<>>, raised |-> FALSE]

\* A process that calls from its main thread only.
NoThreads == [t \in Threads |-> Idle]

Started ==
    /\ BeautifulSoup \in BOOLEAN
    /\ NAV_MAP = None
    /\ NAV_FETCH_FAILED = FALSE
    /\ fetches = 0
    /\ answer = NoResponse
    /\ ret = [op |-> "import", segs |-> <<>>, page |-> NoPage, text |-> <<>>,
              value |-> None, raised |-> FALSE, stdout |-> <<>>, fetched |-> 0]

Init == Started /\ threads = NoThreads /\ agent = NoRequest

\* What the network can answer to a call made in the current state.
Answers == IF WouldFetch(Globals, BeautifulSoup) THEN Responses ELSE {NoResponse}

\* The process state g a call leaves, and the record of the call.
Returns(g, record) ==
    /\ NAV_MAP' = g.NAV_MAP
    /\ NAV_FETCH_FAILED' = g.NAV_FETCH_FAILED
    /\ fetches' = g.fetches
    /\ answer' = g.answer
    /\ ret' = [record EXCEPT !.stdout = g.stdout, !.fetched = g.fetches - fetches]
    /\ UNCHANGED <<BeautifulSoup, threads, agent>>

BuildReturns(b) ==
    Returns(b.g, [op |-> "get_index", segs |-> <<>>, page |-> NoPage, text |-> <<>>,
                  value |-> b.value, raised |-> FALSE, stdout |-> <<>>, fetched |-> 0])

RewriteReturns(call, r) ==
    Returns(r.g, [op |-> "rewrite", segs |-> call.segs, page |-> call.page,
                  text |-> r.text, value |-> None, raised |-> r.raised,
                  stdout |-> <<>>, fetched |-> 0])

\* A call of _build_navigation_map().
CallBuildNavigationMap ==
    \E resp \in Answers :
        BuildReturns(BuildNavigationMap(Globals, BeautifulSoup, resp))

\* A call of on_page_markdown(markdown, page, config, files).
CallOnPageMarkdown ==
    \E call \in PageCalls, resp \in Answers :
        RewriteReturns(call, OnPageMarkdown(Globals, RenderAll(call.segs), call.page,
                                            BeautifulSoup, resp))

Next == CallBuildNavigationMap \/ CallOnPageMarkdown

Spec == Init /\ [][Next]_vars

(***************************************************************************)
(* The process with threads: each thread calls _build_navigation_map, by   *)
(* itself or from repl, and the threads interleave between the statements  *)
(* of the function that read or write the globals.  Nothing in the module  *)
(* guards the globals, and urlopen blocks while other threads run.         *)
(***************************************************************************)
\* What urlopen answers a thread: a transport failure, a status that is not
\* a 2xx, two different documents, and a document the parser fails on.
ThreadResponses ==
    { Response(TRUE, 0, TRUE, <<>>, 0),
      Response(FALSE, 404, TRUE, <<E_proj_mod_Cls>>, 0),
      Response(FALSE, 200, TRUE, <<E_proj_mod_Cls>>, 0),
      Response(FALSE, 200, TRUE, <<E_q>>, 0),
      Response(FALSE, 200, TRUE, <<E_proj_mod_Cls, E_q>>, 2) }

\* The link repl is called for in a thread that rewrites a page.
ThreadLink == Render(Api(S_Cls, S_proj))

\* repl on ThreadLink after _build_navigation_map() returned b.
ThreadLookup(b) ==
    Lookup(b, LookupKey(MatchAt(ThreadLink, 1).target), MatchAt(ThreadLink, 1),
           ThreadLink, DocsPage)

\* Thread t goes on at pc.
ThreadGoes(t, pc) ==
    /\ threads' = [threads EXCEPT ![t].pc = pc]
    /\ UNCHANGED <<BeautifulSoup, NAV_MAP, NAV_FETCH_FAILED, fetches, answer, ret, agent>>

\* The call of thread t ends: r is what it returns to the pipeline.
ThreadEnds(t, g, value, r) ==
    /\ threads' = [threads EXCEPT ![t] =
                      [@ EXCEPT !.pc = "returned", !.value = value,
                                !.text = r.text, !.raised = r.raised]]
    /\ NAV_MAP' = g.NAV_MAP
    /\ NAV_FETCH_FAILED' = g.NAV_FETCH_FAILED
    /\ UNCHANGED <<BeautifulSoup, fetches, answer, ret, agent>>

\* _build_navigation_map() of thread t returns b.
ThreadReturns(t, b) ==
    IF threads[t].op = "rewrite"
    THEN ThreadEnds(t, b.g, b.value, ThreadLookup(b))
    ELSE ThreadEnds(t, b.g, b.value, [text |-> <<>>, raised |-> FALSE])

\* A thread calls _build_navigation_map, or on_page_markdown on ThreadLink.
ThreadCalls(t) ==
    /\ threads[t].pc \in {"idle", "returned"}
    /\ \E op \in {"get_index", "rewrite"} :
           threads' = [threads EXCEPT ![t] = [Idle EXCEPT !.pc = "check_map", !.op = op]]
    /\ UNCHANGED <<BeautifulSoup, NAV_MAP, NAV_FETCH_FAILED, fetches, answer, ret, agent>>

\* if _NAV_MAP is not None: return _NAV_MAP
ThreadChecksMap(t) ==
    /\ threads[t].pc = "check_map"
    /\ IF HasCachedMap(Globals)
       THEN ThreadReturns(t, [g |-> Globals, value |-> NAV_MAP])
       ELSE ThreadGoes(t, "check_failed")

\* if _NAV_FETCH_FAILED: return None
ThreadChecksFailed(t) ==
    /\ threads[t].pc = "check_failed"
    /\ IF HasCachedFailure(Globals)
       THEN ThreadReturns(t, [g |-> Globals, value |-> None])
       ELSE ThreadGoes(t, "check_bs4")

\* if BeautifulSoup is None: _NAV_FETCH_FAILED = True; return None
ThreadChecksParser(t) ==
    /\ threads[t].pc = "check_bs4"
    /\ IF ~BeautifulSoup
       THEN ThreadReturns(t, FetchFailed(Globals, "warn_no_bs4"))
       ELSE ThreadGoes(t, "urlopen")

\* request.urlopen(req, timeout=timeout): the thread blocks until resp.
ThreadFetches(t) ==
    /\ threads[t].pc = "urlopen"
    /\ \E resp \in ThreadResponses :
           /\ threads' = [threads EXCEPT ![t] = [@ EXCEPT !.pc = "fetched", !.resp = resp]]
           /\ answer' = resp
    /\ fetches' = fetches + 1
    /\ UNCHANGED <<BeautifulSoup, NAV_MAP, NAV_FETCH_FAILED, ret, agent>>

\* The rest of the function with the answer: a failure sets the sentinel,
\* a document parsed to its end is stored in _NAV_MAP.
ThreadStores(t) ==
    /\ threads[t].pc = "fetched"
    /\ ThreadReturns(t, Fetched(Globals, threads[t].resp))

NextThreads ==
    \E t \in Threads :
        \/ ThreadCalls(t)
        \/ ThreadChecksMap(t)
        \/ ThreadChecksFailed(t)
        \/ ThreadChecksParser(t)
        \/ ThreadFetches(t)
        \/ ThreadStores(t)

SpecThreads == Init /\ [][NextThreads]_vars

(***************************************************************************)
(* The process on a miss: the index is built from a navigation document    *)
(* whose identifiers lie close to one another, and repl then asks          *)
(* _suggest_keys for the keys close to a key the index does not hold.      *)
(***************************************************************************)
Key(project, member) == project \o <<":",":">> \o member

\* Navigation entries by identifier: six members of project p, one of
\* project q, and an identifier with a triple slash.
SuggestEntries ==
    << Div(Key(<<"p">>, <<"a","b">>), <<"b">>),
       Div(Key(<<"p">>, <<"a","c">>), <<"c">>),
       Div(Key(<<"p">>, <<"a","d">>), <<"d">>),
       Div(Key(<<"p">>, <<"a","e">>), <<"e">>),
       Div(Key(<<"p">>, <<"a","f">>), <<"f">>),
       Div(Key(<<"p">>, <<"a","g">>), <<"g">>),
       Div(Key(<<"q">>, <<"a","b">>), <<"q">>),
       E_proj_mod_Cls >>

\* The documents: every run of 1 to MaxSuggestEntries consecutive entries.
SuggestDocs ==
    UNION { { SubSeq(SuggestEntries, i, i + n - 1) : i \in 1..(Len(SuggestEntries) - n + 1) }
            : n \in 1..MaxSuggestEntries }

\* The keys looked up: of a project of the index, of a project the index
\* lacks, with an empty project, and without a project.
MissedKeys ==
    { Key(<<"p">>, <<"a","a">>), Key(<<"q">>, <<"a","a">>), Key(<<"r">>, <<"a","b">>),
      Key(<<>>, <<"a","b">>), Key(<<"q">>, S_proj), <<"p","a","b">>,
      <<"p","r","o","j",".","m","o","d">>, <<"z","z">> }

\* A call of _build_navigation_map() that one of the documents answers.
BuildSuggestIndex ==
    \E d \in SuggestDocs :
        BuildReturns(BuildNavigationMap(Globals, BeautifulSoup, Response(FALSE, 200, TRUE, d, 0)))

\* repl on a miss: the index is built and not empty, key is not in it, and
\* the suggestions of _suggest_keys are printed.
CallSuggestKeys ==
    /\ ~NAV_MAP.isNone
    /\ NAV_MAP.items # <<>>
    /\ \E k \in MissedKeys :
           /\ ~DictHas(NAV_MAP.items, k)
           /\ ret' = [op |-> "suggest_keys", segs |-> <<>>, page |-> NoPage, text |-> k,
                      value |-> None, raised |-> FALSE,
                      stdout |-> SuggestionLines(SuggestKeys(NAV_MAP.items, k)),
                      fetched |-> 0]
    /\ UNCHANGED <<BeautifulSoup, NAV_MAP, NAV_FETCH_FAILED, fetches, answer, threads, agent>>

NextSuggest == BuildSuggestIndex \/ CallSuggestKeys

SpecSuggest == Init /\ [][NextSuggest]_vars

(***************************************************************************)
(* The agent executor.  A request has an event queue of its own; execute   *)
(* and cancel run as coroutines on one event loop, so a call of cancel     *)
(* runs between two awaits of execute.  agent is the request being served: *)
(* its user input, where execute is (pc, i), the events enqueued so far    *)
(* with the call that enqueued each, the calls of cancel made, and the     *)
(* input and queue of the request served before it.                        *)
(***************************************************************************)
Docs == <<BeautifulSoup, NAV_MAP, NAV_FETCH_FAILED, fetches, answer, threads, ret>>

\* await event_queue.enqueue_event(event), by execute or by cancel.
Enqueue(by, event, pc, i) ==
    agent' = [agent EXCEPT !.queue = Append(@, Enqueued(by, event)), !.pc = pc, !.i = i]

\* HelloWorldAgentExecutor.execute(context, event_queue): the dispatch.
Execute ==
    /\ agent.pc \in {"idle", "done"}
    /\ \E input \in UserInputs :
           agent' = [NoRequest EXCEPT !.input = input, !.pc = Scenario(input),
                                      !.before = [input |-> agent.input,
                                                  queue |-> agent.queue]]
    /\ UNCHANGED Docs

SayHello ==
    /\ agent.pc = "say_hello"
    /\ Enqueue("execute", NewAgentTextMessage("Hello World"), "done", 0)
    /\ UNCHANGED Docs

\* One iteration of: for event in events: await event_queue.enqueue_event(event)
DoTask ==
    /\ agent.pc = "do_task"
    /\ agent.i < Len(DoTaskEvents)
    /\ Enqueue("execute", DoTaskEvents[agent.i + 1],
               IF agent.i + 1 = Len(DoTaskEvents) THEN "done" ELSE "do_task", agent.i + 1)
    /\ UNCHANGED Docs

DoCancelableTask ==
    /\ agent.pc = "do_cancelable_task"
    /\ Enqueue("execute", NewTask, "done", 0)
    /\ UNCHANGED Docs

\* The Task first (i = 0), then one iteration of the loop per step.
DoLongRunningTask ==
    /\ agent.pc = "do_long_running_task"
    /\ IF agent.i = 0
       THEN Enqueue("execute", WorkingTask, "do_long_running_task", 1)
       ELSE Enqueue("execute", StillWorking(agent.i - 1),
                    IF agent.i = Updates THEN "done" ELSE "do_long_running_task",
                    agent.i + 1)
    /\ UNCHANGED Docs

\* else: the input holds none of the phrases.
NotUnderstood ==
    /\ agent.pc = "unknown"
    /\ Enqueue("execute", NewAgentTextMessage("Sorry, I don't understand you"), "done", 0)
    /\ UNCHANGED Docs

\* HelloWorldAgentExecutor.cancel(context, event_queue)
Cancel ==
    /\ agent.pc # "idle"
    /\ agent.cancels < MaxCancels
    /\ agent' = [agent EXCEPT !.queue = Append(@, Enqueued("cancel", Canceled)),
                              !.cancels = @ + 1]
    /\ UNCHANGED Docs

NextAgent ==
    \/ Execute
    \/ SayHello
    \/ DoTask
    \/ DoCancelableTask
    \/ DoLongRunningTask
    \/ NotUnderstood
    \/ Cancel

SpecAgent == Init /\ [][NextAgent]_vars

(***************************************************************************)
(* Properties of the cache.                                                *)
(***************************************************************************)
\* C1: once a build has succeeded, every later call, _build_navigation_map
\* or on_page_markdown, leaves the cached index as it is and issues no
\* fetch, and every later _build_navigation_map call returns that index.
C1_CachedIndexIsReturned ==
    [][~NAV_MAP.isNone =>
          /\ NAV_MAP' = NAV_MAP
          /\ fetches' = fetches
          /\ (ret'.op = "get_index" => ret'.value = NAV_MAP)]_vars

\* A _build_navigation_map call answered from the cache, after the one fetch.
C1_Witness ==
    /\ ret.op = "get_index"
    /\ ~ret.value.isNone /\ ret.value.items # <<>> /\ ret.value = NAV_MAP
    /\ ret.fetched = 0
    /\ fetches = 1

\* C2: once a build has failed, every later _build_navigation_map call
\* returns None without a fetch, and every later on_page_markdown call
\* returns its page as it was given, api: links included.
C2_FailureIsPermanent ==
    [][NAV_FETCH_FAILED =>
          /\ NAV_FETCH_FAILED'
          /\ fetches' = fetches
          /\ (ret'.op = "get_index" => ret'.value = None)
          /\ (ret'.op = "rewrite" =>
                  ~ret'.raised /\ ret'.text = RenderAll(ret'.segs))]_vars

\* A page with an api: link rewritten after the one fetch has failed.
C2_Witness ==
    /\ NAV_FETCH_FAILED
    /\ fetches = 1
    /\ ret.op = "rewrite"
    /\ ret.segs = <<Api(S_Cls, S_proj)>>
    /\ ret.fetched = 0
    /\ ret.text = RenderAll(ret.segs)

\* C3: on_page_markdown returns a text and never raises, whatever the page
\* and the cache, an index holding a raw href that urljoin rejected included.
C3_RewriteNeverRaises == ret.op = "rewrite" => ~ret.raised

\* Whether the answer a to a fetch is a failure: urlopen raised, the status
\* is not a 2xx, the body cannot be decoded, or the parser raised.
AnswerFails(a) ==
    \/ a.urlopen_raises
    \/ a.status < 200 \/ a.status > 299
    \/ ~a.charset_known
    \/ a.parse_raise > 0

\* C4: _build_navigation_map does not raise; a call whose fetch or parse
\* fails returns None, sets the sentinel and caches no index, however many
\* entries the loop had processed; and None is returned only with the
\* sentinel set.
C4_FailuresAreUnavailable ==
    ret.op = "get_index" =>
        /\ ~ret.raised
        /\ (ret.fetched = 1 /\ AnswerFails(answer)) =>
               (ret.value = None /\ NAV_FETCH_FAILED /\ NAV_MAP = None)
        /\ ret.value = None => (NAV_FETCH_FAILED /\ NAV_MAP = None)

\* The parser raising at the second div, after the first was indexed.
C4_Witness ==
    /\ ret.op = "get_index"
    /\ ret.fetched = 1
    /\ answer.parse_raise = 2
    /\ answer.divs[1] = E_proj_mod_Cls
    /\ ret.value = None
    /\ NAV_FETCH_FAILED
    /\ NAV_MAP = None

(***************************************************************************)
(* Properties of the index.  In a state with an index cached, answer is    *)
(* the answer it was built from: the process fetches once.                 *)
(***************************************************************************)
\* An entry the loop indexes: a pageid, a row, a hyperlink and a target.
Indexable(div) ==
    div.pageid # <<>> /\ div.toc_row /\ div.a /\ div.has_href /\ div.href # <<>>

\* The text of s before its first sep (s itself without one), and after it.
TextBefore(s, at) == IF at = 0 THEN s ELSE SubSeq(s, 1, at - 1)

TextAfter(s, sep, at) == IF at = 0 THEN <<>> ELSE SubSeq(s, at + Len(sep), Len(s))

Before(s, sep) == TextBefore(s, IndexOf(s, sep, 1))

After(s, sep) == TextAfter(s, sep, IndexOf(s, sep, 1))

\* s with every '/' turned into '.'.
Dots(s) == [j \in 1..Len(s) |-> IF s[j] = "/" THEN "." ELSE s[j]]

\* Key k is in the index, with the resolved URL of the i-th div of the
\* document unless an earlier div had claimed k.
MapsToEntry(divs, i, k) ==
    /\ DictHas(NAV_MAP.items, k)
    /\ \/ DictGet(NAV_MAP.items, k) = NormalizedHref(divs[i].href)
       \/ DictHas(ParseDivs(divs, i - 1), k)

\* C5, as stated: an indexable entry A///B/C puts the keys A and A.B.C in
\* the index, each with the entry's resolved URL unless claimed earlier.
C5_TripleSlashKeys ==
    ~NAV_MAP.isNone =>
        \A i \in 1..Len(answer.divs) :
            (Indexable(answer.divs[i])
             /\ Contains(answer.divs[i].pageid, <<"/","/","/">>)) =>
                /\ MapsToEntry(answer.divs, i,
                               Before(answer.divs[i].pageid, <<"/","/","/">>))
                /\ MapsToEntry(answer.divs, i,
                               Dots(Replace(answer.divs[i].pageid,
                                            <<"/","/","/">>, <<".">>)))

\* C5, as the code has it: an indexable entry A///B puts in the index the
\* key A and the key A with its slashes turned into periods, each with the
\* entry's resolved URL unless an earlier entry claimed it; no key is
\* derived from B.
C5_BaseAndDottedBaseKeys ==
    ~NAV_MAP.isNone =>
        \A i \in 1..Len(answer.divs) :
            (Indexable(answer.divs[i])
             /\ Contains(answer.divs[i].pageid, <<"/","/","/">>)) =>
                /\ MapsToEntry(answer.divs, i,
                               Before(answer.divs[i].pageid, <<"/","/","/">>))
                /\ MapsToEntry(answer.divs, i,
                               Dots(Before(answer.divs[i].pageid, <<"/","/","/">>)))
                /\ ~DictHas(ParseDivs(answer.divs, i - 1),
                            Dots(Replace(answer.divs[i].pageid, <<"/","/","/">>, <<".">>)))
                   => ~DictHas(ParseDivs(answer.divs, i),
                               Dots(Replace(answer.divs[i].pageid,
                                            <<"/","/","/">>, <<".">>)))

\* The index built from the entry a/b///x: the keys a/b and a.b.
C5_Witness ==
    /\ ~NAV_MAP.isNone
    /\ answer.divs = <<E_a_b_x>>
    /\ DictKeys(NAV_MAP.items) = {<<"a","/","b">>, <<"a",".","b">>}
    /\ DictGet(NAV_MAP.items, <<"a",".","b">>) = DictGet(NAV_MAP.items, <<"a","/","b">>)

\* s with '//' and then '/' turned into '.'.
DottedForm(s) == Replace(Replace(s, <<"/","/">>, <<".">>), <<"/">>, <<".">>)

\* The text before the first '//' of s, '//', and the first segment after it.
UpToFirstSegment(s) ==
    Before(s, <<"/","/">>) \o <<"/","/">> \o Before(After(s, <<"/","/">>), <<"/">>)

\* C6, as stated: an indexable entry whose identifier contains '//' puts in
\* the index the trimmed key (the text before the first '//', '//' and the
\* first segment after it) and the dotted-trimmed key.
C6_TrimmedKeysOfIdentifier ==
    ~NAV_MAP.isNone =>
        \A i \in 1..Len(answer.divs) :
            (Indexable(answer.divs[i])
             /\ Contains(answer.divs[i].pageid, <<"/","/">>)) =>
                /\ DictHas(NAV_MAP.items, UpToFirstSegment(answer.divs[i].pageid))
                /\ DictHas(NAV_MAP.items,
                           DottedForm(UpToFirstSegment(answer.divs[i].pageid)))

\* The trimmed keys of a base key A that contains '//'.
HasTrimmedKeys(A) ==
    IF Before(After(A, <<"/","/">>), <<"/">>) # <<>>
    THEN /\ DictHas(NAV_MAP.items, UpToFirstSegment(A))
         /\ DictHas(NAV_MAP.items, DottedForm(UpToFirstSegment(A)))
    ELSE Before(A, <<"/","/">>) # <<>> =>
             /\ DictHas(NAV_MAP.items, Before(A, <<"/","/">>))
             /\ DictHas(NAV_MAP.items, DottedForm(Before(A, <<"/","/">>)))

\* C6, as the code has it: the trimmed keys are derived from the base key,
\* the identifier up to its first '///'.  When the base key contains '//'
\* with a segment after it, the index has the trimmed key and the
\* dotted-trimmed key; when the base key ends with its first '//', the
\* index has the text before it and the dotted form of that text.
C6_TrimmedKeysOfBaseKey ==
    ~NAV_MAP.isNone =>
        \A i \in 1..Len(answer.divs) :
            (Indexable(answer.divs[i])
             /\ Contains(Before(answer.divs[i].pageid, <<"/","/","/">>), <<"/","/">>)) =>
                HasTrimmedKeys(Before(answer.divs[i].pageid, <<"/","/","/">>))

\* The index built from the entry pkg//member/extra.
C6_Witness ==
    /\ ~NAV_MAP.isNone
    /\ Len(answer.divs) = 1
    /\ answer.divs[1].pageid = S_pkg_member_extra
    /\ DictKeys(NAV_MAP.items) = {S_pkg_member_extra, S_pkg_member, S_pkg_dot_member}

\* The keys the entry div produces by itself.
KeysOf(div) == DictKeys(AddEntry(<<>>, div))

\* The first div of the document, in document order, that produces key k.
FirstProducer(divs, k) ==
    CHOOSE i \in 1..Len(divs) :
        k \in KeysOf(divs[i]) /\ \A j \in 1..(i - 1) : k \notin KeysOf(divs[j])

\* The value under key k in the dict items is that of the first producer.
FirstWins(divs, k, v) ==
    /\ \E i \in 1..Len(divs) : k \in KeysOf(divs[i])
    /\ v = NormalizedHref(divs[FirstProducer(divs, k)].href)

\* The loop over the divs never changes the value of a key it has stored.
NeverOverwrites(divs) ==
    \A i \in 1..Len(divs) :
        \A n \in 1..Len(ParseDivs(divs, i - 1)) :
            ParseDivs(divs, i)[n] = ParseDivs(divs, i - 1)[n]

IsAbsoluteUrl(u) == UrlScheme(u) # <<>>

\* C13, as stated: every value of a built index is an absolute URL, the
\* target of the entry that produced the key resolved against the URL of
\* the navigation document, whatever the outcome of the resolution.
C13_ValuesAreAbsolute ==
    ~NAV_MAP.isNone =>
        \A n \in 1..Len(NAV_MAP.items) :
            /\ IsAbsoluteUrl(NAV_MAP.items[n].v)
            /\ NAV_MAP.items[n].v =
                   Urljoin(NAV_URL,
                           answer.divs[FirstProducer(answer.divs, NAV_MAP.items[n].k)].href)

\* The value stored for the target href.
StoredFor(href, v) ==
    IF UrlsplitRaises(href) THEN v = href
    ELSE v = Urljoin(NAV_URL, href) /\ IsAbsoluteUrl(v)

\* C13, as the code has it: every value of a built index is the target of
\* the entry that produced the key resolved against the URL of the
\* navigation document, an absolute URL, when the resolution succeeds; when
\* the resolution raises, the value is the raw target, absolute or not.
C13_ValuesAreResolvedOrRaw ==
    ~NAV_MAP.isNone =>
        \A n \in 1..Len(NAV_MAP.items) :
            StoredFor(answer.divs[FirstProducer(answer.divs, NAV_MAP.items[n].k)].href,
                      NAV_MAP.items[n].v)

\* An index with a relative target resolved and a raw target kept.
C13_Witness ==
    /\ ~NAV_MAP.isNone
    /\ answer.divs = <<E_proj_bad, E_q>>
    /\ DictGet(NAV_MAP.items, S_proj) = S_bad_href
    /\ ~IsAbsoluteUrl(S_bad_href)
    /\ DictGet(NAV_MAP.items, <<"q">>) = S_api_proj

(***************************************************************************)
(* Properties of the rewriting.                                            *)
(***************************************************************************)
S_Cls_resolved ==
    <<"[","C","l","s","]","(","h","t","t","p","s",":","/","/","a","p","i",".",
      "k","o","o","g",".","a","i","/","m","o","d","/","C","l","s","/","i","n",
      "d","e","x",".","h","t","m","l",")">>

\* The 'unable to resolve' lines among the lines the last call printed.
Unresolved == SelectSeq(ret.stdout, LAMBDA l : l.kind = "warn_unresolved")

\* C7, as stated: with pageid proj///mod/Cls and href mod/Cls/index.html in
\* the document fetched, [Cls](api:proj.mod.Cls) is rewritten to
\* [Cls](https://api.koog.ai/mod/Cls/index.html).
C7_EndToEndDottedIdentifier ==
    (/\ ret.op = "rewrite"
     /\ ~NAV_MAP.isNone
     /\ \E i \in 1..Len(answer.divs) : answer.divs[i] = E_proj_mod_Cls
     /\ ret.segs = <<Api(S_Cls, S_proj_dot_mod_dot_Cls)>>) =>
        (~ret.raised /\ ret.text = S_Cls_resolved)

\* C7, as the code has it: with that entry first in the document fetched,
\* [Cls](api:proj) is rewritten to
\* [Cls](https://api.koog.ai/mod/Cls/index.html), and
\* [Cls](api:proj.mod.Cls) is returned as it was given, with one 'unable to
\* resolve' line.
C7_EndToEndBaseKey ==
    (/\ ret.op = "rewrite"
     /\ ~NAV_MAP.isNone
     /\ Len(answer.divs) > 0
     /\ answer.divs[1] = E_proj_mod_Cls) =>
        /\ ret.segs = <<Api(S_Cls, S_proj)>> =>
               (~ret.raised /\ ret.text = S_Cls_resolved)
        /\ ret.segs = <<Api(S_Cls, S_proj_dot_mod_dot_Cls)>> =>
               (~ret.raised /\ ret.text = RenderAll(ret.segs) /\ Len(Unresolved) = 1)

\* [Cls](api:proj) rewritten with the entry first in a longer document.
C7_Witness ==
    /\ ret.op = "rewrite"
    /\ ~NAV_MAP.isNone
    /\ Len(answer.divs) > 1
    /\ answer.divs[1] = E_proj_mod_Cls
    /\ ret.segs = <<Api(S_Cls, S_proj)>>
    /\ ret.text = S_Cls_resolved

\* The page of the last call is one api: link.
OneLink == Len(ret.segs) = 1 /\ ret.segs[1].kind = "api"

\* What the code looks up for the key K as written in a link is K itself:
\* K has no whitespace at either end and no ')'.
Verbatim(K) ==
    /\ K # <<>>
    /\ K[1] \notin Whitespace /\ K[Len(K)] \notin Whitespace
    /\ ~Contains(K, <<")">>)

\* absolute(H)
Absolute(H) == Urljoin(BASE_URL, H)

\* The link texts of the pages, stripped and with each run of whitespace
\* turned into one hyphen.
Hyphenated(T) ==
    CASE T = S_Cls -> S_Cls
      [] T = <<"a"," ","\n","b">> -> <<"a","-","b">>
      [] T = <<" ","c"," ">> -> <<"c">>
      [] T = <<" ">> -> <<>>

\* Rewriting text again in the current state returns it as it is.
RewrittenAgain(text) ==
    OnPageMarkdown(Globals, text, ret.page, BeautifulSoup, NoResponse)

IsFixedPoint(again, text) == ~again.raised /\ again.text = text

\* The last call rewrote [T](api:K) to [D](absolute(H)), and rewriting that
\* again returns it unchanged when again holds.
RewroteTo(D, url, again) ==
    /\ ~ret.raised
    /\ ret.text = <<"[">> \o D \o <<"]","(">> \o url \o <<")">>
    /\ again => IsFixedPoint(RewrittenAgain(ret.text), ret.text)

\* C8, as stated, for the hrefs that urljoin accepts: with K in the index
\* under H, [T](api:K) is rewritten to [T](absolute(H)), and rewriting the
\* output again returns it unchanged.
C8_RoundTrip ==
    (/\ ret.op = "rewrite" /\ OneLink
     /\ ~NAV_MAP.isNone
     /\ DictHas(NAV_MAP.items, ret.segs[1].rest)
     /\ ~UrljoinRaises(BASE_URL, DictGet(NAV_MAP.items, ret.segs[1].rest))) =>
        RewroteTo(ret.segs[1].text,
                  Absolute(DictGet(NAV_MAP.items, ret.segs[1].rest)), TRUE)

\* The outcome of rewriting [T](api:K) with K in the index under H.
RoundTripOf(T, H) ==
    IF UrljoinRaises(BASE_URL, H) THEN ret.raised
    ELSE RewroteTo(Hyphenated(T), Absolute(H), ~StartsWith(Absolute(H), API))

\* C8, as the code has it: with K in the index under H, K without
\* whitespace at its ends and without ')', [T](api:K) is rewritten to
\* [D](absolute(H)) where D is T stripped with each run of whitespace turned
\* into a hyphen; rewriting the output again returns it unchanged when
\* absolute(H) does not begin with api:; and the call raises when H is a
\* raw href that urljoin rejects.
C8_RoundTripOfDisplayText ==
    (/\ ret.op = "rewrite" /\ OneLink
     /\ ~NAV_MAP.isNone
     /\ Verbatim(ret.segs[1].rest)
     /\ DictHas(NAV_MAP.items, ret.segs[1].rest)) =>
        RoundTripOf(ret.segs[1].text, DictGet(NAV_MAP.items, ret.segs[1].rest))

\* [ c ](api:proj) rewritten to [c](https://api.koog.ai/mod/Cls/index.html).
C8_Witness ==
    /\ ret.op = "rewrite"
    /\ ret.segs = <<Api(<<" ","c"," ">>, S_proj)>>
    /\ ~NAV_MAP.isNone
    /\ DictHas(NAV_MAP.items, S_proj)
    /\ ret.text = <<"[","c","]","(">> \o Absolute(S_mod_Cls_index) \o <<")">>

\* C9: with an index built, of any number of entries, a link whose key is
\* not in it is left as it was given and one 'unable to resolve' line is
\* printed, naming the key and the page.
C9_MissIsReported ==
    (/\ ret.op = "rewrite" /\ OneLink
     /\ ~NAV_MAP.isNone
     /\ Verbatim(ret.segs[1].rest)
     /\ ~DictHas(NAV_MAP.items, ret.segs[1].rest)) =>
        /\ ~ret.raised
        /\ ret.text = RenderAll(ret.segs)
        /\ Len(Unresolved) = 1
        /\ Unresolved[1].key = ret.segs[1].rest
        /\ Unresolved[1].page =
               IF ret.page.has_file THEN ret.page.src_path ELSE "<unknown>"

\* The positions of s that hold no whitespace.
Inked(s) == {j \in 1..Len(s) : s[j] \notin Whitespace}

\* s from its first to its last character that is not whitespace.
Trimmed_(s, inked) ==
    IF inked = {} THEN <<>>
    ELSE SubSeq(s, CHOOSE j \in inked : \A o \in inked : j <= o,
                   CHOOSE j \in inked : \A o \in inked : j >= o)

TrimWs(s) == Trimmed_(s, Inked(s))

\* The last call substituted its one link: it did not return it as given.
Substituted == ret.raised \/ ret.text # RenderAll(ret.segs)

LookedUpAs(key) ==
    IF key = <<>> THEN ~Substituted /\ Unresolved = <<>>
    ELSE IF DictHas(NAV_MAP.items, key) THEN Substituted /\ Unresolved = <<>>
    ELSE ~Substituted /\ Len(Unresolved) = 1 /\ Unresolved[1].key = key

RECURSIVE Hyphens(_, _)
Hyphens(s, j) ==
    IF j > Len(s) THEN <<>>
    ELSE IF s[j] \notin Whitespace THEN <<s[j]>> \o Hyphens(s, j + 1)
    ELSE IF j > 1 /\ s[j - 1] \in Whitespace THEN Hyphens(s, j + 1)
    ELSE <<"-">> \o Hyphens(s, j + 1)

\* The last call substituted its one link and returned the new link.
SubstitutedLink == OneLink /\ ~ret.raised /\ ret.text # RenderAll(ret.segs)

\* The display text of the link the last call returned.
EmittedDisplayText == Before(Tail(ret.text), <<"]">>)

\* C17, as stated: the display text emitted by a substitution is the one
\* matched with each maximal run of whitespace replaced by one hyphen,
\* whitespace at its ends included.
C17_RunsBecomeHyphens ==
    (ret.op = "rewrite" /\ SubstitutedLink) =>
        EmittedDisplayText = Hyphens(ret.segs[1].text, 1)

\* C17, as the code has it: the display text emitted by a substitution is
\* the one matched with the whitespace at its ends removed and then each
\* maximal run of whitespace replaced by one hyphen; a display text of
\* whitespace only is emitted as the empty text.
C17_TrimmedRunsBecomeHyphens ==
    (ret.op = "rewrite" /\ SubstitutedLink) =>
        EmittedDisplayText = Hyphens(TrimWs(ret.segs[1].text), 1)

\* [a \nb](api:proj) substituted with the display text a-b.
C17_Witness ==
    /\ ret.op = "rewrite"
    /\ ret.segs = <<Api(<<"a"," ","\n","b">>, S_proj)>>
    /\ SubstitutedLink
    /\ EmittedDisplayText = <<"a","-","b">>

\* What a segment of a page becomes with the index items: a link whose key
\* is in the index is substituted, any other segment is kept.
SegmentBecomes(seg, items) ==
    IF seg.kind = "api" /\ DictHas(items, seg.rest)
    THEN <<"[">> \o Hyphens(TrimWs(seg.text), 1) \o <<"]","(">>
         \o Absolute(DictGet(items, seg.rest)) \o <<")">>
    ELSE Render(seg)

RECURSIVE PageBecomes(_, _)
PageBecomes(segs, items) ==
    IF segs = <<>> THEN <<>>
    ELSE SegmentBecomes(segs[1], items) \o PageBecomes(Tail(segs), items)

\* C18: in a page of several segments rewritten with an available index,
\* every link whose key is in the index is substituted, before or after an
\* unresolved one, every link whose key is absent is left as it was, and
\* the text between them is passed through.
C18_MatchesAreIndependent ==
    (/\ ret.op = "rewrite"
     /\ Len(ret.segs) > 1
     /\ ~NAV_MAP.isNone /\ NAV_MAP.items # <<>>) =>
        (~ret.raised /\ ret.text = PageBecomes(ret.segs, NAV_MAP.items))

\* Whether text holds a ']' followed by a target that starts with api:.
HasApiTarget(text) == Contains(text, <<"]","(","a","p","i",":">>)

\* C10: a text without a link whose target starts with api: is returned as
\* it was given, in every state of the cache, with nothing fetched and
\* nothing printed.
C10_NonMatchIsUnchanged ==
    (ret.op = "rewrite" /\ ~HasApiTarget(RenderAll(ret.segs))) =>
        /\ ~ret.raised
        /\ ret.text = RenderAll(ret.segs)
        /\ ret.stdout = <<>>
        /\ ret.fetched = 0

\* An ordinary link rewritten with an index cached.
C10_Witness ==
    /\ ret.op = "rewrite"
    /\ ret.segs = <<Plain(S_ordinary)>>
    /\ ~NAV_MAP.isNone /\ NAV_MAP.items # <<>>
    /\ ret.text = S_ordinary

(***************************************************************************)
(* Properties of the cache under threads.                                  *)
(***************************************************************************)
\* C11: with several calls running concurrently from an empty cache, at
\* most one fetch of the navigation document is issued, in every
\* interleaving.
C11_AtMostOneFetch == fetches <= 1

\* Thread t returns from its call in this step.
ThreadReturnsNow(t) == threads[t].pc # "returned" /\ threads'[t].pc = "returned"

\* C14: the cache is never both built and failed, in every interleaving of
\* concurrent calls, and once the sentinel is set no later call returns an
\* index.
C14_OneCacheState ==
    [][/\ ~(~NAV_MAP'.isNone /\ NAV_FETCH_FAILED')
       /\ NAV_FETCH_FAILED =>
              \A t \in Threads : ThreadReturnsNow(t) => threads'[t].value = None]_vars

\* C15: once an index is cached no later step changes it, whether the calls
\* run one after another or concurrently: it is never replaced by the
\* result of a second build.
C15_IndexIsNeverReplaced ==
    [][~NAV_MAP.isNone => NAV_MAP' = NAV_MAP]_vars

(***************************************************************************)
(* Properties of the suggestions.                                          *)
(***************************************************************************)
\* The keys printed after "Did you mean one of:", in the order printed.
Suggestions ==
    IF ret.stdout = <<>> THEN <<>>
    ELSE [j \in 1..(Len(ret.stdout) - 1) |-> ret.stdout[j + 1].key]

Suggested == {Suggestions[j] : j \in 1..Len(Suggestions)}

HasSeparator(k) == Contains(k, <<":",":">>)

\* s starts with the prefix of k up to its first "::", followed by "::".
SharesPrefix(s, k) == StartsWith(s, SplitFirst(k, <<":",":">>) \o <<":",":">>)

\* The prefix of the key is not empty and some index key starts with it.
Restricted ==
    /\ HasSeparator(ret.text)
    /\ SplitFirst(ret.text, <<":",":">>) # <<>>
    /\ \E key \in DictKeys(NAV_MAP.items) : SharesPrefix(key, ret.text)

Considered ==
    IF Restricted THEN {key \in DictKeys(NAV_MAP.items) : SharesPrefix(key, ret.text)}
    ELSE DictKeys(NAV_MAP.items)

\* C19, as stated: on a miss at most 5 suggestions are emitted, every
\* suggestion for a key that contains "::" starts with the key's prefix up to
\* the first "::" followed by "::", and the suggestions for a key without
\* "::" are index keys.
C19_SuggestionsSharePrefix ==
    ret.op = "suggest_keys" =>
        /\ Len(Suggestions) <= Limit
        /\ HasSeparator(ret.text) => \A s \in Suggested : SharesPrefix(s, ret.text)
        /\ ~HasSeparator(ret.text) => Suggested \subseteq DictKeys(NAV_MAP.items)

\* C19, amended: on a miss at most 5 suggestions are emitted; when the
\* prefix of the key up to its first "::" is not empty and some index key
\* starts with that prefix followed by "::", every suggestion is such an
\* index key; otherwise every index key is considered.  When fewer than 5
\* are emitted, they are all the considered keys that are close to the key.
C19_SuggestionsOfCandidates ==
    ret.op = "suggest_keys" =>
        /\ Len(Suggestions) <= Limit
        /\ Suggested \subseteq Considered
        /\ Len(Suggestions) < Limit =>
               \A key \in Considered : IsClose(Scored(key, ret.text)) => key \in Suggested

\* Five suggestions of the key's project are printed while a sixth key of
\* the project and a key of another project are as close to the key.
C19_Witness ==
    /\ ret.op = "suggest_keys"
    /\ Restricted
    /\ Len(Suggestions) = Limit
    /\ \E key \in Considered \ Suggested : IsClose(Scored(key, ret.text))
    /\ \E key \in DictKeys(NAV_MAP.items) \ Considered : IsClose(Scored(key, ret.text))

(***************************************************************************)
(* Properties of the agent executor.                                       *)
(***************************************************************************)
\* The events execute enqueued on the queue q, in order.
ByExecute(q) == SelectSeq(q, LAMBDA e : e.by = "execute")

IsTask(e) == e.event.type = "Task"

IsUpdate(e, state, final) ==
    /\ e.event.type = "TaskStatusUpdateEvent"
    /\ e.event.state = state
    /\ e.event.final = final

Finals(ev) == {j \in 1..Len(ev) : ev[j].event.final}

\* The events ev of a "do task" request, complete or not: the Task, a
\* working update that is not final, a completed update that is final, and
\* nothing more; the only final event is the third.
DoTaskOrder(ev, complete) ==
    /\ Len(ev) <= 3
    /\ complete => Len(ev) = 3
    /\ Len(ev) >= 1 => IsTask(ev[1])
    /\ Len(ev) >= 2 => IsUpdate(ev[2], "working", FALSE)
    /\ Len(ev) >= 3 => IsUpdate(ev[3], "completed", TRUE)
    /\ Finals(ev) \subseteq {3}

\* The events ev of a "do long-running task" request: the Task, then four
\* working updates that are not final, and no final event.
DoLongRunningOrder(ev, complete) ==
    /\ Len(ev) <= 5
    /\ complete => Len(ev) = 5
    /\ Len(ev) >= 1 => IsTask(ev[1])
    /\ \A j \in 2..Len(ev) : IsUpdate(ev[j], "working", FALSE)
    /\ Finals(ev) = {}

ScenarioOrder(scenario, ev, complete) ==
    /\ scenario = "do_task" => DoTaskOrder(ev, complete)
    /\ scenario = "do_long_running_task" => DoLongRunningOrder(ev, complete)

\* C20: the "do task" scenario enqueues the new Task, a working update with
\* final=False and a completed update with final=True, in this order and
\* nothing after the final event; the "do long-running task" scenario
\* enqueues the Task and then four working updates with final=False, and no
\* final event.  This holds at every step of the request being served and
\* of the request served before it.
C20_ScenarioEvents ==
    /\ agent.pc # "idle" =>
           ScenarioOrder(Scenario(agent.input), ByExecute(agent.queue), agent.pc = "done")
    /\ ScenarioOrder(Scenario(agent.before.input), ByExecute(agent.before.queue),
                     agent.before.queue # <<>>)

\* A "do long-running task" request is complete, with a cancel between its
\* events, after a complete "do task" request.
C20_Witness ==
    /\ agent.pc = "done"
    /\ Scenario(agent.input) = "do_long_running_task"
    /\ Len(ByExecute(agent.queue)) = 5
    /\ Len(agent.queue) = 6
    /\ agent.queue[6].by = "execute"
    /\ Scenario(agent.before.input) = "do_task"
    /\ Len(ByExecute(agent.before.queue)) = 3

====
